---- MODULE Spec2Model ----
(***************************************************************************)
(* Model of hand_simulator/backend/main.py: one shared Simulation object,  *)
(* driven by HTTP command requests, motion playback tasks, a websocket     *)
(* state publisher and /state queries.                                     *)
(*                                                                         *)
(* Execution model.  All coroutines (request handlers, play_motion,        *)
(* publisher) run on one asyncio event-loop thread: a coroutine keeps the  *)
(* thread from one await to the next (loopOwner).  The only code that runs *)
(* off that thread is the background task of command_joints:               *)
(* background.add_task(simulation.step) registers a plain (non-async)      *)
(* function, which the framework executes in a thread-pool worker after    *)
(* the response has been sent.                                             *)
(*                                                                         *)
(* A call on the simulation (apply_targets, get_joint_state, step) is      *)
(* modelled by a begin and an end step; inflight holds the calls that have *)
(* begun and not ended.                                                    *)
(*                                                                         *)
(* Time is counted in publisher periods (1/PublishHz seconds).  Sleeps are *)
(* exact: the clock does not pass the wake-up time of a sleeping task, and *)
(* it does not advance while a coroutine holds the event-loop thread.      *)
(***************************************************************************)
EXTENDS Integers, Sequences, FiniteSets, TLC

\* ---------------------------------------------------------------- bounds
MaxSockets == 2
MaxCommands == 3
MaxRuns == 2
MaxTime == 2
\* Command requests served while websocket clients are connected (SpecHub).
MaxHubCommands == 1

\* main.py:174  await asyncio.sleep(1.0 / 20.0)
PublishHz == 20

Sockets == 1..MaxSockets
Commands == 1..MaxCommands
Runs == 1..MaxRuns
PubTasks == 1..MaxSockets

\* ------------------------------------------------------------ input data
\* Simulation.joint_map: the revolute joints of the loaded model.
joint_map == {"j1", "j2"}

\* Target dictionaries of the JointCommand bodies that are submitted ("jx" is
\* no joint of the model).
CommandTargets == { [j \in {"j1", "jx"} |-> 1] }

\* The files of MOTION_DIR, as MotionDefinition(name, frequency, keyframes);
\* keyframe times are in clock units.
MotionFiles ==
  [ empty |-> [frequency |-> 20, keyframes |-> << >>],
    pair  |-> [frequency |-> 20,
               keyframes |-> << [time |-> 0, joints |-> [j \in {"j1"} |-> 0]],
                                [time |-> 1, joints |-> [j \in {"j1"} |-> 2]] >>],
    burst |-> [frequency |-> 20,
               keyframes |-> << [time |-> 0, joints |-> [j \in {"j2"} |-> 1]],
                                [time |-> 0, joints |-> [j \in {"j2", "jx"} |-> 0]] >>] ]

MotionNames == {"empty", "pair", "burst", "missing"}
Scales == {1, 2}

NoOne == <<"none", 0>>

VARIABLES
  now,          \* the event loop's clock
  loopOwner,    \* the coroutine running on the event-loop thread, or NoOne
  inflight,     \* calls on the simulation in progress: <<actor, operation>>
  simTargets,   \* motor target of every joint of joint_map
  simSteps,     \* number of stepSimulation calls completed
  subscribers,  \* state_subscribers
  publishTask,  \* state_publish_task: 0 (None) or the id of a publisher task
  pub,          \* the publisher tasks
  sock,         \* the websocket connections and their handlers
  cmd,          \* the /joints/command requests
  run,          \* the /motions/play requests and their play_motion tasks
  query,        \* the /state request in progress
  urdf          \* the model sources on disk and the last render_urdf call

vars == << now, loopOwner, inflight, simTargets, simSteps, subscribers,
           publishTask, pub, sock, cmd, run, query, urdf >>


\* ----------------------------------------------------------------- helpers
Range(s) == { s[i] : i \in 1..Len(s) }

\* list.remove(x): the list without the first element equal to x.
Remove(s, x) ==
  LET i == CHOOSE k \in 1..Len(s) : s[k] = x /\ \A m \in 1..(k - 1) : s[m] # x
  IN  SubSeq(s, 1, i - 1) \o SubSeq(s, i + 1, Len(s))

\* asyncio.sleep(1.0 / frequency), in clock units of 1/PublishHz seconds.
SleepUnits(frequency) == PublishHz \div frequency

PubActor(t) == <<"pub", t>>
CmdActor(c) == <<"cmd", c>>
BgActor(c) == <<"bg", c>>
RunActor(r) == <<"run", r>>
QueryActor == <<"query", 0>>

Begin(actor, op) == inflight \cup { <<actor, op>> }
End(actor) == { call \in inflight : call[1] # actor }

\* ------------------------------------------------------------- Simulation
\* Mutant: names missing from joint_map are not skipped.
apply_targets_unfiltered(targets) ==
  [ j \in joint_map \cup DOMAIN targets |->
      IF j \in DOMAIN targets THEN targets[j] ELSE simTargets[j] ]

\* Simulation.apply_targets: names missing from joint_map are skipped.
apply_targets(targets) ==
  [ j \in joint_map |-> IF j \in DOMAIN targets THEN targets[j] ELSE simTargets[j] ]

\* ------------------------------------------------------------ render_urdf
\* DEFAULT_XACRO: missing, present but failing to build, or building.
XacroStates == {"absent", "broken", "good"}
\* SAMPLE_URDF: missing, or present with one of two contents.
SampleStates == {"absent", "v1", "v2"}
UrdfSources == {"auto", "sample", "xacro", "mesh"}

Return(text) == [ ok |-> TRUE, text |-> text, error |-> "" ]
Raise(error) == [ ok |-> FALSE, text |-> << >>, error |-> error ]
NoRequest == [ source |-> "none", xacro |-> "absent", sample |-> "absent" ]
NoReply == Raise("none")

\* SAMPLE_URDF.read_text(encoding="utf-8")
SampleText == << "sample", urdf.sample >>

\* xacro.process_file(DEFAULT_XACRO).toxml()
ProcessXacro ==
  IF urdf.xacro = "good" THEN Return(<< "xacro", "xml" >>)
  ELSE Raise("xacro processing failed")

\* Mutant: auto mode without the fallback to the sample file.
render_urdf_nofallback(source) ==
  IF source \notin {"auto", "sample", "xacro"} THEN Raise("Unsupported URDF source")
  ELSE IF source = "sample" THEN
    IF urdf.sample = "absent" THEN Raise("Sample URDF not found")
    ELSE Return(SampleText)
  ELSE IF source = "xacro" THEN
    IF urdf.xacro = "absent" THEN Raise("Xacro source not found")
    ELSE ProcessXacro
  ELSE IF urdf.xacro # "absent" THEN ProcessXacro
  ELSE IF urdf.sample # "absent" THEN Return(SampleText)
  ELSE Raise("No URDF source available")

render_urdf(source) ==
  IF source \notin {"auto", "sample", "xacro"} THEN Raise("Unsupported URDF source")
  ELSE IF source = "sample" THEN
    IF urdf.sample = "absent" THEN Raise("Sample URDF not found")
    ELSE Return(SampleText)
  ELSE IF source = "xacro" THEN
    IF urdf.xacro = "absent" THEN Raise("Xacro source not found")
    ELSE ProcessXacro
  ELSE IF urdf.xacro # "absent" THEN
    IF ProcessXacro.ok THEN ProcessXacro
    ELSE IF urdf.sample # "absent" THEN Return(SampleText)
    ELSE ProcessXacro
  ELSE IF urdf.sample # "absent" THEN Return(SampleText)
  ELSE Raise("No URDF source available")

\* ------------------------------------------------------------------- Init
IdlePub == [ pc |-> "unborn", readFrom |-> 0, state |-> 0, reads |-> 0,
             todo |-> << >>, tickSubs |-> {}, sent |-> {}, failed |-> {},
             wake |-> 0 ]
IdleSock == [ handler |-> "idle", conn |-> "none" ]
IdleCmd == [ pc |-> "idle", targets |-> << >>, applies |-> 0, steps |-> 0,
             responded |-> FALSE ]
IdleRun == [ pc |-> "idle", name |-> "", scale |-> 1, start |-> 0, idx |-> 0,
             wake |-> 0, iters |-> 0, applies |-> 0, steps |-> 0, sleeps |-> 0,
             finish |-> 0 ]

Init ==
  /\ now = 0
  /\ loopOwner = NoOne
  /\ inflight = {}
  /\ simTargets = [ j \in joint_map |-> 0 ]
  /\ simSteps = 0
  /\ subscribers = << >>
  /\ publishTask = 0
  /\ pub = [ t \in PubTasks |-> IdlePub ]
  /\ sock = [ w \in Sockets |-> IdleSock ]
  /\ cmd = [ c \in Commands |-> IdleCmd ]
  /\ run = [ r \in Runs |-> IdleRun ]
  /\ query = "idle"
  /\ urdf = [ xacro |-> "good", sample |-> "v1", request |-> NoRequest,
              reply |-> NoReply ]

\* ----------------------------------------------- websocket_state (handler)
\* Mutant: the early return taken for a finished task instead of a live one.
PublisherRunningInverted == publishTask # 0 /\ pub[publishTask].pc = "done"

\* ensure_state_publisher's early return: a task exists and is not done.
PublisherRunning == publishTask # 0 /\ pub[publishTask].pc # "done"

\* ensure_state_publisher: asyncio.create_task(publisher()) unless running.
ensure_state_publisher ==
  IF PublisherRunning
  THEN UNCHANGED << publishTask, pub >>
  ELSE \E t \in PubTasks :
         /\ pub[t].pc = "unborn"
         /\ \A u \in 1..(t - 1) : pub[u].pc # "unborn"
         /\ publishTask' = t
         /\ pub' = [ pub EXCEPT ![t].pc = "ready" ]

\* ws.accept(); state_subscribers.append(ws); await ensure_state_publisher()
WsConnect(w) ==
  /\ loopOwner = NoOne
  /\ sock[w].handler = "idle"
  /\ \A v \in 1..(w - 1) : sock[v].handler # "idle"
  /\ sock' = [ sock EXCEPT ![w] = [ handler |-> "receiving", conn |-> "open" ] ]
  /\ subscribers' = Append(subscribers, w)
  /\ ensure_state_publisher
  /\ UNCHANGED << urdf, now, loopOwner, inflight, simTargets, simSteps, cmd, run, query >>

\* The peer goes away: from now on receive and send on this socket fail.
ClientClose(w) ==
  /\ sock[w].conn = "open"
  /\ sock' = [ sock EXCEPT ![w].conn = "closed" ]
  /\ UNCHANGED << urdf, now, loopOwner, inflight, simTargets, simSteps, subscribers,
                  publishTask, pub, cmd, run, query >>

\* receive_text raises WebSocketDisconnect: remove ws if still registered.
WsDisconnect(w) ==
  /\ loopOwner = NoOne
  /\ sock[w].handler = "receiving"
  /\ sock[w].conn = "closed"
  /\ sock' = [ sock EXCEPT ![w].handler = "finished" ]
  /\ subscribers' = IF w \in Range(subscribers) THEN Remove(subscribers, w)
                    ELSE subscribers
  /\ UNCHANGED << urdf, now, loopOwner, inflight, simTargets, simSteps, publishTask,
                  pub, cmd, run, query >>

\* -------------------------------------- ensure_state_publisher.publisher
\* Mutant: the joint state queried again for every subscriber.
messageRequeried(state) == [ type |-> "state", joints |-> simSteps ]

\* message = {"type": "state", "joints": state}
message(state) == [ type |-> "state", joints |-> state ]

\* Top of the while loop: simulation.get_joint_state() is entered.
PubTickBegin(t) ==
  /\ loopOwner = NoOne
  /\ \/ pub[t].pc = "ready"
     \/ pub[t].pc = "sleeping" /\ pub[t].wake <= now
  /\ loopOwner' = PubActor(t)
  /\ inflight' = Begin(PubActor(t), "get_joint_state")
  /\ pub' = [ pub EXCEPT ![t].pc = "reading", ![t].readFrom = simSteps ]
  /\ UNCHANGED << urdf, now, simTargets, simSteps, subscribers, publishTask, sock, cmd,
                  run, query >>

\* The rest of a tick after a delivery, or after the read when nobody is
\* registered: the next ws.send_json of the copied list (an await: the
\* event-loop thread is released), or simulation.step() is entered.
PubContinue(t, p, rest) ==
  IF rest = << >>
  THEN /\ pub' = [ pub EXCEPT ![t] = [ p EXCEPT !.pc = "stepping", !.todo = rest ] ]
       /\ loopOwner' = PubActor(t)
       /\ inflight' = End(PubActor(t)) \cup { << PubActor(t), "step" >> }
  ELSE /\ pub' = [ pub EXCEPT ![t] =
                     [ p EXCEPT !.pc = "sending", !.todo = rest,
                                !.sent = @ \cup { << Head(rest), message(p.state) >> } ] ]
       /\ loopOwner' = NoOne
       /\ inflight' = End(PubActor(t))

\* get_joint_state returns; for ws in list(state_subscribers): ...
\* A step made by a worker thread during the read may or may not be seen.
PubReadEnd(t) ==
  /\ pub[t].pc = "reading"
  /\ \E v \in pub[t].readFrom..simSteps :
       PubContinue(t, [ pub[t] EXCEPT !.state = v, !.reads = @ + 1,
                                      !.tickSubs = Range(subscribers) ],
                   subscribers)
  /\ UNCHANGED << urdf, now, simTargets, simSteps, subscribers, publishTask, sock, cmd,
                  run, query >>

\* await ws.send_json(message) returns normally.
PubSendOk(t) ==
  /\ loopOwner = NoOne
  /\ pub[t].pc = "sending"
  /\ sock[Head(pub[t].todo)].conn = "open"
  /\ PubContinue(t, pub[t], Tail(pub[t].todo))
  /\ UNCHANGED << urdf, now, simTargets, simSteps, subscribers, publishTask, sock, cmd,
                  run, query >>

\* await ws.send_json(message) raises; except Exception:
\* state_subscribers.remove(ws).  list.remove raises ValueError when ws is no
\* longer in the list; nothing catches it and the task ends.
PubSendFail(t) ==
  /\ loopOwner = NoOne
  /\ pub[t].pc = "sending"
  /\ sock[Head(pub[t].todo)].conn = "closed"
  /\ LET ws == Head(pub[t].todo)
         p == [ pub[t] EXCEPT !.failed = @ \cup { ws } ]
     IN  IF ws \in Range(subscribers)
         THEN /\ subscribers' = Remove(subscribers, ws)
              /\ PubContinue(t, p, Tail(pub[t].todo))
         ELSE /\ subscribers' = subscribers
              /\ pub' = [ pub EXCEPT ![t] = [ p EXCEPT !.pc = "done" ] ]
              /\ UNCHANGED << loopOwner, inflight >>
  /\ UNCHANGED << urdf, now, simTargets, simSteps, publishTask, sock, cmd, run, query >>

\* simulation.step() returns; await asyncio.sleep(1.0 / 20.0)
PubStepEnd(t) ==
  /\ pub[t].pc = "stepping"
  /\ simSteps' = simSteps + 1
  /\ inflight' = End(PubActor(t))
  /\ loopOwner' = NoOne
  /\ pub' = [ pub EXCEPT ![t] = [ IdlePub EXCEPT !.pc = "sleeping",
                                   !.wake = now + SleepUnits(PublishHz) ] ]
  /\ UNCHANGED << urdf, now, simTargets, subscribers, publishTask, sock, cmd, run, query >>

\* ---------------------------------------------------------- command_joints
\* simulation.apply_targets(cmd.targets, cmd.max_force) is entered.
CmdApplyBegin(c, targets) ==
  /\ loopOwner = NoOne
  /\ cmd[c].pc = "idle"
  /\ \A b \in 1..(c - 1) : cmd[b].pc # "idle"
  /\ loopOwner' = CmdActor(c)
  /\ inflight' = Begin(CmdActor(c), "apply_targets")
  /\ cmd' = [ cmd EXCEPT ![c].pc = "applying", ![c].targets = targets ]
  /\ UNCHANGED << urdf, now, simTargets, simSteps, subscribers, publishTask, pub, sock,
                  run, query >>

\* Mutant: the response returned without the background task being added.
CmdApplyEndNoTask(c) ==
  /\ cmd[c].pc = "applying"
  /\ simTargets' = apply_targets(cmd[c].targets)
  /\ inflight' = End(CmdActor(c))
  /\ loopOwner' = NoOne
  /\ cmd' = [ cmd EXCEPT ![c].pc = "done", ![c].applies = @ + 1,
                         ![c].responded = TRUE ]
  /\ UNCHANGED << urdf, now, simSteps, subscribers, publishTask, pub, sock, run, query >>

\* apply_targets returns; background.add_task(simulation.step);
\* return {"status": "queued"}: the caller has its response.
CmdApplyEnd(c) ==
  /\ cmd[c].pc = "applying"
  /\ simTargets' = apply_targets(cmd[c].targets)
  /\ inflight' = End(CmdActor(c))
  /\ loopOwner' = NoOne
  /\ cmd' = [ cmd EXCEPT ![c].pc = "queued", ![c].applies = @ + 1,
                         ![c].responded = TRUE ]
  /\ UNCHANGED << urdf, now, simSteps, subscribers, publishTask, pub, sock, run, query >>

\* The response has been sent; a worker thread enters simulation.step().
BgStepBegin(c) ==
  /\ cmd[c].pc = "queued"
  /\ inflight' = Begin(BgActor(c), "step")
  /\ cmd' = [ cmd EXCEPT ![c].pc = "stepping" ]
  /\ UNCHANGED << urdf, now, loopOwner, simTargets, simSteps, subscribers, publishTask,
                  pub, sock, run, query >>

\* The worker thread's simulation.step() returns.
BgStepEnd(c) ==
  /\ cmd[c].pc = "stepping"
  /\ simSteps' = simSteps + 1
  /\ inflight' = End(BgActor(c))
  /\ cmd' = [ cmd EXCEPT ![c].pc = "done", ![c].steps = @ + 1 ]
  /\ UNCHANGED << urdf, now, loopOwner, simTargets, subscribers, publishTask, pub, sock,
                  run, query >>

\* --------------------------------------------------------------- get_state
GetStateBegin ==
  /\ loopOwner = NoOne
  /\ query = "idle"
  /\ query' = "reading"
  /\ loopOwner' = QueryActor
  /\ inflight' = Begin(QueryActor, "get_joint_state")
  /\ UNCHANGED << urdf, now, simTargets, simSteps, subscribers, publishTask, pub, sock,
                  cmd, run >>

GetStateEnd ==
  /\ query = "reading"
  /\ query' = "idle"
  /\ loopOwner' = NoOne
  /\ inflight' = End(QueryActor)
  /\ UNCHANGED << urdf, now, simTargets, simSteps, subscribers, publishTask, pub, sock,
                  cmd, run >>

\* ------------------------------------------- load_motion, trigger_motion
\* Mutant: an unknown name yields an empty motion instead of a 404.
load_motion_lenient(name) ==
  [ found |-> TRUE,
    motion |-> IF name \in DOMAIN MotionFiles THEN MotionFiles[name]
               ELSE [ frequency |-> PublishHz, keyframes |-> << >> ] ]

\* load_motion: HTTPException(404) when MOTION_DIR has no such file.
load_motion(name) ==
  IF name \in DOMAIN MotionFiles
  THEN [ found |-> TRUE, motion |-> MotionFiles[name] ]
  ELSE [ found |-> FALSE, motion |-> [ frequency |-> 0, keyframes |-> << >> ] ]

\* motion = load_motion(req.name); asyncio.create_task(play_motion(...))
TriggerMotion(r, name, scale) ==
  /\ loopOwner = NoOne
  /\ run[r].pc = "idle"
  /\ \A q \in 1..(r - 1) : run[q].pc # "idle"
  /\ run' = [ run EXCEPT ![r].name = name, ![r].scale = scale,
                         ![r].pc = IF load_motion(name).found THEN "ready"
                                   ELSE "notfound" ]
  /\ UNCHANGED << urdf, now, loopOwner, inflight, simTargets, simSteps, subscribers,
                  publishTask, pub, sock, cmd, query >>

\* ------------------------------------------------------------- play_motion
MotionOf(r) == load_motion(run[r].name).motion

\* if not motion.keyframes: return
NoKeyframes(motion) == Len(motion.keyframes) = 0

\* total_time = motion.keyframes[-1].time * scale
total_time(motion, scale) == motion.keyframes[Len(motion.keyframes)].time * scale

\* Mutant: the keyframe at the cursor is applied whether or not it is due.
PlayIterateEager(r, p) ==
  /\ run' = [ run EXCEPT ![r] = [ p EXCEPT !.pc = "applying", !.iters = @ + 1 ] ]
  /\ loopOwner' = RunActor(r)
  /\ inflight' = Begin(RunActor(r), "apply_targets")

\* The elapsed time at which the while loop exits, entered with the cursor at
\* idx and elapsed time t: every iteration sleeps 1 / frequency.
RECURSIVE LoopExit(_, _, _, _)
LoopExit(motion, scale, idx, t) ==
  IF idx >= Len(motion.keyframes) THEN t
  ELSE LoopExit(motion, scale,
                IF t >= motion.keyframes[idx + 1].time * scale THEN idx + 1 ELSE idx,
                t + SleepUnits(motion.frequency))

\* One pass through the head of the while body: the keyframe at the cursor is
\* applied when it is due, otherwise the step follows at once.
PlayIterate(r, p) ==
  LET frame == MotionOf(r).keyframes[p.idx + 1]
      elapsed == now - p.start
      due == elapsed >= frame.time * p.scale
  IN  /\ run' = [ run EXCEPT ![r] =
                    [ p EXCEPT !.pc = IF due THEN "applying" ELSE "stepping",
                               !.iters = @ + 1 ] ]
      /\ loopOwner' = RunActor(r)
      /\ inflight' = Begin(RunActor(r), IF due THEN "apply_targets" ELSE "step")

\* Mutant: the loop body entered (one step) before the keyframes are looked at.
PlayStartStepFirst(r) ==
  /\ loopOwner = NoOne
  /\ run[r].pc = "ready"
  /\ run' = [ run EXCEPT ![r].pc = "stepping", ![r].start = now, ![r].idx = 0 ]
  /\ loopOwner' = RunActor(r)
  /\ inflight' = Begin(RunActor(r), "step")
  /\ UNCHANGED << urdf, now, simTargets, simSteps, subscribers, publishTask, pub, sock,
                  cmd, query >>

\* Mutant: a run starts only when no other run is in its loop.
PlayStartExclusive(r) ==
  /\ loopOwner = NoOne
  /\ run[r].pc = "ready"
  /\ \A q \in Runs \ {r} : run[q].pc \in {"idle", "ready", "notfound", "done"}
  /\ IF NoKeyframes(MotionOf(r))
     THEN /\ run' = [ run EXCEPT ![r].pc = "done", ![r].start = now,
                                 ![r].finish = now ]
          /\ UNCHANGED << loopOwner, inflight >>
     ELSE PlayIterate(r, [ run[r] EXCEPT !.start = now, !.idx = 0 ])
  /\ UNCHANGED << urdf, now, simTargets, simSteps, subscribers, publishTask, pub, sock,
                  cmd, query >>

\* The task created by trigger_motion runs for the first time.
PlayStart(r) ==
  /\ loopOwner = NoOne
  /\ run[r].pc = "ready"
  /\ IF NoKeyframes(MotionOf(r))
     THEN /\ run' = [ run EXCEPT ![r].pc = "done", ![r].start = now,
                                 ![r].finish = now ]
          /\ UNCHANGED << loopOwner, inflight >>
     ELSE PlayIterate(r, [ run[r] EXCEPT !.start = now, !.idx = 0 ])
  /\ UNCHANGED << urdf, now, simTargets, simSteps, subscribers, publishTask, pub, sock,
                  cmd, query >>

\* Mutant: the iteration ends after apply_targets, without a step.
PlayApplyEndNoStep(r) ==
  /\ run[r].pc = "applying"
  /\ simTargets' = apply_targets(MotionOf(r).keyframes[run[r].idx + 1].joints)
  /\ run' = [ run EXCEPT ![r].pc = "sleeping", ![r].idx = @ + 1,
                         ![r].applies = @ + 1, ![r].sleeps = @ + 1,
                         ![r].wake = now + SleepUnits(MotionOf(r).frequency) ]
  /\ inflight' = End(RunActor(r))
  /\ loopOwner' = NoOne
  /\ UNCHANGED << urdf, now, simSteps, subscribers, publishTask, pub, sock, cmd, query >>

\* Mutant: apply_targets returns and the cursor stays where it was.
PlayApplyEndSameFrame(r) ==
  /\ run[r].pc = "applying"
  /\ simTargets' = apply_targets(MotionOf(r).keyframes[run[r].idx + 1].joints)
  /\ run' = [ run EXCEPT ![r].pc = "stepping" ]
  /\ inflight' = End(RunActor(r)) \cup { << RunActor(r), "step" >> }
  /\ UNCHANGED << urdf, now, loopOwner, simSteps, subscribers, publishTask, pub, sock,
                  cmd, query >>

\* apply_targets(frame.joints, max_force=5.0) returns; idx += 1;
\* simulation.step() is entered.
PlayApplyEnd(r) ==
  /\ run[r].pc = "applying"
  /\ simTargets' = apply_targets(MotionOf(r).keyframes[run[r].idx + 1].joints)
  /\ run' = [ run EXCEPT ![r].pc = "stepping", ![r].idx = @ + 1,
                         ![r].applies = @ + 1 ]
  /\ inflight' = End(RunActor(r)) \cup { << RunActor(r), "step" >> }
  /\ UNCHANGED << urdf, now, loopOwner, simSteps, subscribers, publishTask, pub, sock,
                  cmd, query >>

\* simulation.step() returns; await asyncio.sleep(1.0 / motion.frequency)
PlayStepEnd(r) ==
  /\ run[r].pc = "stepping"
  /\ simSteps' = simSteps + 1
  /\ inflight' = End(RunActor(r))
  /\ loopOwner' = NoOne
  /\ run' = [ run EXCEPT ![r].pc = "sleeping", ![r].steps = @ + 1,
                         ![r].sleeps = @ + 1,
                         ![r].wake = now + SleepUnits(MotionOf(r).frequency) ]
  /\ UNCHANGED << urdf, now, simTargets, subscribers, publishTask, pub, sock, cmd, query >>

\* A sleep of the task is over: the while condition is tested again; after
\* the loop, remaining = total_time - (loop.time() - start) is slept if > 0.
PlayWake(r) ==
  /\ loopOwner = NoOne
  /\ run[r].pc \in {"sleeping", "resting"}
  /\ run[r].wake <= now
  /\ LET p == run[r]
         remaining == total_time(MotionOf(r), p.scale) - (now - p.start)
     IN  IF p.pc = "sleeping" /\ p.idx < Len(MotionOf(r).keyframes)
         THEN PlayIterate(r, p)
         ELSE /\ run' = [ run EXCEPT ![r] =
                     IF p.pc = "sleeping" /\ remaining > 0
                     THEN [ p EXCEPT !.pc = "resting", !.sleeps = @ + 1,
                                     !.wake = now + remaining ]
                     ELSE [ p EXCEPT !.pc = "done", !.finish = now ] ]
              /\ UNCHANGED << loopOwner, inflight >>
  /\ UNCHANGED << urdf, now, simTargets, simSteps, subscribers, publishTask, pub, sock,
                  cmd, query >>

\* ---------------------------------------------------------------- get_urdf
\* The files under urdf/ are changed on disk.
WriteModelFiles(xacro, sample) ==
  /\ << xacro, sample >> # << urdf.xacro, urdf.sample >>
  /\ urdf' = [ urdf EXCEPT !.xacro = xacro, !.sample = sample ]
  /\ UNCHANGED << now, loopOwner, inflight, simTargets, simSteps, subscribers,
                  publishTask, pub, sock, cmd, run, query >>

\* xml = render_urdf(source), from get_urdf or Simulation._load_hand.
RenderUrdf(source) ==
  /\ loopOwner = NoOne
  /\ urdf' = [ urdf EXCEPT
                 !.request = [ source |-> source, xacro |-> urdf.xacro,
                               sample |-> urdf.sample ],
                 !.reply = render_urdf(source) ]
  /\ UNCHANGED << now, loopOwner, inflight, simTargets, simSteps, subscribers,
                  publishTask, pub, sock, cmd, run, query >>

\* -------------------------------------------------------------------- time
\* The clock advances when the event loop has nothing to run.
Tick ==
  /\ now < MaxTime
  /\ loopOwner = NoOne
  /\ \A t \in PubTasks :
       /\ pub[t].pc # "ready"
       /\ pub[t].pc = "sleeping" => pub[t].wake > now
  /\ \A r \in Runs :
       /\ run[r].pc # "ready"
       /\ run[r].pc \in {"sleeping", "resting"} => run[r].wake > now
  /\ now' = now + 1
  /\ UNCHANGED << urdf, loopOwner, inflight, simTargets, simSteps, subscribers,
                  publishTask, pub, sock, cmd, run, query >>

\* The websocket side: subscriptions and the publisher task.
HubNext ==
  \/ \E w \in Sockets : WsConnect(w)
  \/ \E w \in Sockets : ClientClose(w)
  \/ \E w \in Sockets : WsDisconnect(w)
  \/ \E t \in PubTasks : PubTickBegin(t)
  \/ \E t \in PubTasks : PubReadEnd(t)
  \/ \E t \in PubTasks : PubSendOk(t)
  \/ \E t \in PubTasks : PubSendFail(t)
  \/ \E t \in PubTasks : PubStepEnd(t)

\* POST /joints/command and its background step, for request c.
CommandStep(c) ==
  \/ \E targets \in CommandTargets : CmdApplyBegin(c, targets)
  \/ CmdApplyEnd(c)
  \/ BgStepBegin(c)
  \/ BgStepEnd(c)

CommandNext == \E c \in Commands : CommandStep(c)

\* GET /state
QueryNext ==
  \/ GetStateBegin
  \/ GetStateEnd

\* POST /motions/play and the play_motion tasks.
MotionNext ==
  \/ \E r \in Runs, name \in MotionNames, scale \in Scales : TriggerMotion(r, name, scale)
  \/ \E r \in Runs : PlayStart(r)
  \/ \E r \in Runs : PlayApplyEnd(r)
  \/ \E r \in Runs : PlayStepEnd(r)
  \/ \E r \in Runs : PlayWake(r)

\* GET /urdf and the model files.
UrdfNext ==
  \/ \E xacro \in XacroStates, sample \in SampleStates : WriteModelFiles(xacro, sample)
  \/ \E source \in UrdfSources : RenderUrdf(source)

Next == HubNext \/ CommandNext \/ QueryNext \/ MotionNext \/ UrdfNext \/ Tick

\* The whole backend.
Spec == Init /\ [][Next]_vars

\* The backend serving websocket clients and command requests only.
SpecHub ==
  Init /\ [][HubNext \/ (\E c \in 1..MaxHubCommands : CommandStep(c)) \/ Tick]_vars

\* The backend serving HTTP requests only (no websocket client).
SpecRequests == Init /\ [][CommandNext \/ QueryNext \/ MotionNext \/ Tick]_vars

\* The backend serving command and state requests only; the thread pool runs
\* every background task it is given, and a call that has begun returns.
SpecCommand ==
  /\ Init
  /\ [][CommandNext \/ QueryNext \/ Tick]_vars
  /\ \A c \in Commands :
       WF_vars(CmdApplyEnd(c)) /\ WF_vars(BgStepBegin(c)) /\ WF_vars(BgStepEnd(c))

\* The backend serving model requests only.
SpecUrdf == Init /\ [][UrdfNext]_vars

\* The backend serving motion requests only.
SpecMotion == Init /\ [][MotionNext \/ Tick]_vars

\* The same, with the event loop running every task that can run and the
\* clock advancing.
SpecMotionFair ==
  /\ SpecMotion
  /\ WF_vars(Tick)
  /\ \A r \in Runs :
       /\ WF_vars(PlayStart(r)) /\ WF_vars(PlayApplyEnd(r))
       /\ WF_vars(PlayStepEnd(r)) /\ WF_vars(PlayWake(r))

\* ================================================================= claims
Active(t) == pub[t].pc \notin {"unborn", "done"}
Created(t) == pub[t].pc # "unborn"
TickOver(t) == pub[t].pc \in {"stepping", "done"}
Attempted(t) == { m[1] : m \in pub[t].sent }
InWindow(c) == cmd[c].pc \in {"applying", "queued", "stepping"}
Known(r) == run[r].name \in DOMAIN MotionFiles
Keyframes(r) == MotionFiles[run[r].name].keyframes
Abs(x) == IF x < 0 THEN 0 - x ELSE x

\* C1: at no instant are two calls on the shared simulation in progress.
NoParallelCalls == Cardinality(inflight) <= 1

\* C2: in every reachable state at most one publisher loop is active.
OnePublisherLoop == Cardinality({ t \in PubTasks : Active(t) }) <= 1

\* C2 witness: two subscribes have arrived before the loop's first iteration.
SubscribesBeforeFirstIteration ==
  /\ Len(subscribers) >= 2
  /\ \E t \in PubTasks : pub[t].pc = "ready"

\* C3: once a tick with a failed delivery is over, the failing subscriber is
\* out of the registry and every subscriber registered at the start of the
\* tick has had its delivery attempt.
FailedDeliverySparesTheOthers ==
  \A t \in PubTasks :
    (TickOver(t) /\ pub[t].failed # {}) =>
      /\ pub[t].failed \cap Range(subscribers) = {}
      /\ pub[t].tickSubs \subseteq Attempted(t)

\* C4: over the whole process lifetime at most one publisher task is created.
LoopCreatedAtMostOnce == Cardinality({ t \in PubTasks : Created(t) }) <= 1

\* C5: the windows (apply_targets .. step) of two commands do not overlap, so
\* they occur in acceptance order, and no call of another actor is in
\* progress inside a command's window.
CommandWindowsSerialized ==
  \A c \in Commands :
    InWindow(c) =>
      /\ \A b \in Commands \ {c} : ~InWindow(b)
      /\ \A call \in inflight : call[1] \in { CmdActor(c), BgActor(c) }

\* C6: from a tick's snapshot read to its step no other actor has a call on
\* the simulation in progress.
BroadcastTickAtomic ==
  \A t \in PubTasks :
    pub[t].pc \in {"reading", "sending", "stepping"} =>
      \A call \in inflight : call[1] = PubActor(t)

\* C7: within a tick the snapshot is read once, and every delivery attempted
\* in the tick carries that snapshot.
OneSnapshotPerTick ==
  \A t \in PubTasks :
    pub[t].pc \in {"sending", "stepping", "done"} =>
      /\ pub[t].reads = 1
      /\ \A m \in pub[t].sent : m[2].joints = pub[t].state

\* C7 witness: two deliveries attempted in a tick during which the simulation
\* has been stepped by somebody else.
TwoDeliveriesAcrossAStep ==
  \E t \in PubTasks :
    /\ Cardinality(pub[t].sent) >= 2
    /\ simSteps > pub[t].state

\* C8: a play request for a name that does not exist ends as not found, with
\* no task, no apply_targets and no step, and the step that rejects it
\* leaves the simulation as it was.
UnknownMotionRejected ==
  [][ \A r \in Runs :
        (run'[r].pc # "idle" /\ run'[r].name \notin DOMAIN MotionFiles) =>
          /\ run'[r].pc = "notfound"
          /\ run'[r].applies = 0 /\ run'[r].steps = 0
          /\ run[r].pc = "idle" =>
               << simTargets, simSteps, inflight >>' = << simTargets, simSteps, inflight >>
    ]_vars

\* C8 witness: a request for a missing motion has been answered.
UnknownMotionRequested ==
  \E r \in Runs : run[r].pc = "notfound" /\ ~Known(r)

\* C9: a run over zero keyframes is over as soon as it has started, without
\* apply_targets, step or sleep.
EmptyMotionDoesNothing ==
  \A r \in Runs :
    (Known(r) /\ Keyframes(r) = << >> /\ run[r].pc \notin {"idle", "ready"}) =>
      /\ run[r].pc = "done"
      /\ run[r].applies = 0 /\ run[r].steps = 0 /\ run[r].sleeps = 0
      /\ run[r].finish = run[r].start

\* C9 witness: a run over the empty motion has finished.
EmptyMotionPlayed ==
  \E r \in Runs : Known(r) /\ Keyframes(r) = << >> /\ run[r].pc = "done"

\* C10: a finished run has lasted total_time, give or take one tick period.
DurationMatchesTotalTime ==
  \A r \in Runs :
    (Known(r) /\ Keyframes(r) # << >> /\ run[r].pc = "done") =>
      Abs((run[r].finish - run[r].start)
          - Keyframes(r)[Len(Keyframes(r))].time * run[r].scale)
        <= SleepUnits(MotionFiles[run[r].name].frequency)

\* C11: a command makes one apply_targets call, then one step; its response
\* is returned when the apply is done and the step is not; the step follows.
CommandAppliesOnceStepsOnce ==
  /\ [](\A c \in Commands :
          /\ cmd[c].applies <= 1 /\ cmd[c].steps <= cmd[c].applies
          /\ cmd[c].pc = "done" => cmd[c].steps = 1)
  /\ [][ \A c \in Commands :
           (cmd'[c].responded /\ ~cmd[c].responded) =>
             (cmd'[c].applies = 1 /\ cmd'[c].steps = 0 /\ cmd'[c].pc # "stepping")
     ]_vars
  /\ \A c \in Commands : cmd[c].responded ~> (cmd[c].steps = 1)

\* C11 witness: a command has been applied, answered and stepped.
CommandCompleted ==
  \E c \in Commands :
    cmd[c].responded /\ cmd[c].applies = 1 /\ cmd[c].steps = 1

\* The target set passed by the apply_targets call that the actor has in
\* progress.
ApplyArgs(actor) ==
  IF actor[1] = "cmd" THEN cmd[actor[2]].targets
  ELSE Keyframes(actor[2])[run[actor[2]].idx + 1].joints

\* C12: an apply_targets call that returns has set the target of the joints
\* of the model named in its argument, has left every other joint's target
\* as it was, and has added no joint.
ApplyTargetsSetsKnownNamedOnly ==
  [][ \A call \in inflight :
        (call[2] = "apply_targets" /\ call \notin inflight') =>
          LET targets == ApplyArgs(call[1])
          IN  /\ DOMAIN simTargets' = joint_map
              /\ \A j \in joint_map :
                   simTargets'[j] = IF j \in DOMAIN targets THEN targets[j]
                                    ELSE simTargets[j]
    ]_vars

\* C12 witness: a keyframe naming "j2" and the unknown "jx" has been applied
\* while "j1" held a target set by another run.
MixedTargetsApplied ==
  \E r \in Runs :
    /\ run[r].name = "burst" /\ run[r].applies = 2
    /\ simTargets = [ j \in joint_map |-> IF j = "j1" THEN 2 ELSE 0 ]

\* C13: in auto mode, a xacro source that is present but does not build makes
\* render_urdf return the sample file's text when that file exists; with no
\* usable source at all the call fails.
AutoFallsBackOrFails ==
  urdf.request.source = "auto" =>
    /\ (urdf.request.xacro = "broken" /\ urdf.request.sample # "absent") =>
         urdf.reply = Return(<< "sample", urdf.request.sample >>)
    /\ (urdf.request.xacro # "good" /\ urdf.request.sample = "absent") =>
         (~urdf.reply.ok /\ urdf.reply.error # "none")

\* C13 witness: auto mode has fallen back to the sample text.
AutoFellBack ==
  /\ urdf.request = [ source |-> "auto", xacro |-> "broken", sample |-> "v2" ]
  /\ urdf.reply.ok

\* C14: once started, the broadcast loop never stops: no publisher task ever
\* reaches its end.
BroadcastLoopNeverStops == \A t \in PubTasks : pub[t].pc # "done"

\* C18: every delivery attempt the broadcast loop begins goes to a channel
\* that is in the subscriber registry at that moment.
NoAttemptAfterRemoval ==
  [][ \A t \in PubTasks :
        \A m \in pub'[t].sent \ pub[t].sent : m[1] \in Range(subscribers')
    ]_vars

InLoop(r) == run[r].pc \in {"applying", "stepping", "sleeping"}
ApplyEnds(r) ==
  << RunActor(r), "apply_targets" >> \in inflight
    /\ << RunActor(r), "apply_targets" >> \notin inflight'

\* C15: the keyframes of a run are applied in sequence order, each once: the
\* cursor moves one keyframe at a time, exactly when an apply_targets call of
\* the run returns, that call carried the keyframe at the cursor, and the
\* run's elapsed time was then at least the keyframe's time * scale; a
\* finished run has applied every keyframe.
KeyframesInOrderWhenDue ==
  /\ [](\A r \in Runs :
          Known(r) =>
            /\ run[r].applies = run[r].idx
            /\ run[r].idx <= Len(Keyframes(r))
            /\ run[r].pc = "done" => run[r].idx = Len(Keyframes(r)))
  /\ [][ \A r \in Runs :
           /\ run'[r].idx \in { run[r].idx, run[r].idx + 1 }
           /\ run'[r].idx = run[r].idx + 1 <=> ApplyEnds(r)
           /\ ApplyEnds(r) =>
                LET frame == Keyframes(r)[run[r].idx + 1]
                IN  /\ now - run[r].start >= frame.time * run[r].scale
                    /\ simTargets' = apply_targets(frame.joints)
     ]_vars

\* C15 witness: a run at scale 2 has waited one iteration for its second
\* keyframe and then applied it.
LateKeyframeApplied ==
  \E r \in Runs :
    /\ run[r].name = "pair" /\ run[r].scale = 2
    /\ run[r].applies = 2 /\ run[r].iters = 3

\* C19: every iteration of a run's loop applies at most one keyframe and
\* makes exactly one step: the steps made equal the iterations completed, the
\* keyframes applied never exceed the iterations begun, and a finished run
\* over n >= 1 keyframes has made at least n steps.
OneStepPerIteration ==
  \A r \in Runs :
    (Known(r) /\ Keyframes(r) # << >>) =>
      /\ run[r].applies <= run[r].iters
      /\ run[r].pc \in {"idle", "ready"} => run[r].iters = 0
      /\ run[r].pc = "applying" =>
           (run[r].steps = run[r].iters - 1 /\ run[r].applies < run[r].iters)
      /\ run[r].pc = "stepping" => run[r].steps = run[r].iters - 1
      /\ run[r].pc \in {"sleeping", "resting", "done"} => run[r].steps = run[r].iters
      /\ run[r].pc = "done" => run[r].steps >= Len(Keyframes(r))

\* C19 witness: two keyframes were due at the first iteration, which applied
\* one of them and made one step.
OneOfTwoDueApplied ==
  \E r \in Runs :
    /\ run[r].name = "burst" /\ run[r].pc = "sleeping"
    /\ run[r].iters = 1 /\ run[r].applies = 1 /\ run[r].steps = 1

\* C17: runs do not exclude one another: a trigger_motion is accepted while
\* other runs are in their loops and leaves its run ready without any call
\* made, a ready run starts as soon as the event loop is free, whatever the
\* other runs are doing; and the motor targets change only when an
\* apply_targets call returns, to the values that call named, so each target
\* holds what the latest call naming it has set.
RunsInterleaveLastWriterWins ==
  /\ [](\A r \in Runs :
          /\ (loopOwner = NoOne /\ run[r].pc = "idle"
                /\ \A q \in 1..(r - 1) : run[q].pc # "idle") =>
               ENABLED TriggerMotion(r, "pair", 1)
          /\ (loopOwner = NoOne /\ run[r].pc = "ready") => ENABLED PlayStart(r))
  /\ [][ /\ \A r \in Runs :
              (run[r].pc = "idle" /\ run'[r].pc # "idle" /\ Known(r)') =>
                (run'[r].pc = "ready" /\ run'[r].iters = 0 /\ inflight' = inflight)
         /\ \A call \in inflight :
              (call[2] = "apply_targets" /\ call \notin inflight') =>
                \A j \in joint_map \cap DOMAIN ApplyArgs(call[1]) :
                  simTargets'[j] = ApplyArgs(call[1])[j]
         /\ \A j \in joint_map :
              simTargets'[j] # simTargets[j] =>
                \E call \in inflight \ inflight' :
                  call[2] = "apply_targets" /\ j \in DOMAIN ApplyArgs(call[1])
     ]_vars

\* C17 witness: two runs started at the same instant; the first has applied
\* both its keyframes, the second has applied one and has one remaining, and
\* j1 holds what the first run's last keyframe set.
TwoRunsInterleaved ==
  /\ run[1].name = "pair" /\ run[1].scale = 1 /\ run[1].idx = 2
  /\ run[2].name = "pair" /\ run[2].scale = 2 /\ run[2].idx = 1
  /\ run[2].start = run[1].start /\ InLoop(2)
  /\ simTargets["j1"] = 2

====
